---- MODULE Spec2Model ----
(***************************************************************************)
(* API Behavior Tracker (src/app.py): the request/response middleware that *)
(* appends one APIRequest row per served request, and the analytics        *)
(* handlers that aggregate the rows of a trailing time window.             *)
(*                                                                         *)
(* Time is counted in whole hours.  Numbers that the code rounds to two    *)
(* decimals are kept as integers in hundredths (33.33 is 3333).            *)
(***************************************************************************)
EXTENDS Integers, Sequences, FiniteSets, TLC

\* ------------------------------------------------------------------ bounds
\* Requests served in one behaviour.
MaxRequests == 2
\* Requests served in one behaviour whose traffic is a few kinds of request.
MaxBurst == 4
\* Latest reading of the clock, in hours.
MaxNow == 2

\* `hours` query parameters tried.
Hours == {1, 2}
\* `limit` query parameters tried.
Limits == {0, 1, 2}
\* Elapsed times measured by log_request/log_response, in ms.
Latencies == {3}

VARIABLES
    cloudwatch_logs,  \* "None" or "client": the module-level sink handle
    store,            \* committed rows of api_requests, in insertion order
    nextId,           \* next value of the api_requests.id sequence
    now,              \* datetime.utcnow(), in hours
    budget,           \* requests a behaviour may serve
    served,           \* requests served so far
    failed,           \* of those, the ones whose commit failed
    req,              \* the last request served, and what happened in log_response
    handled,          \* the response its handler produced
    resp,             \* the response log_response returned for it
    sm                \* a get_summary invocation in flight (SpecRC)

vars == <<cloudwatch_logs, store, nextId, now, budget, served, failed, req, handled, resp, sm>>

\* ------------------------------------------------------------- arithmetic
Min(a, b) == IF a <= b THEN a ELSE b

\* n/d to the nearest integer.  The code rounds quotients x*100.0/t to two
\* decimals, in SQL (func.round) or with Python's round; the two differ only
\* on an exact tie, which x*10000/t cannot be for t < 32.
RoundDiv(n, d) == (2 * n + d) \div (2 * d)

RECURSIVE SumSeq(_)
SumSeq(s) == IF s = <<>> THEN 0 ELSE Head(s) + SumSeq(Tail(s))

Range(s) == {s[i] : i \in DOMAIN s}

\* ------------------------------------------------------------- the routes
HealthPath == "/health"
MostUsedPath == "/api/analytics/most-used"
ErrorRatesPath == "/api/analytics/error-rates"
ResponseTimesPath == "/api/analytics/response-times"
SummaryPath == "/api/analytics/summary"
RequestsPath == "/api/requests"
ReadPaths == {MostUsedPath, ErrorRatesPath, ResponseTimesPath, SummaryPath, RequestsPath}
Routes == ReadPaths \cup {HealthPath}
\* A path no route matches.
MissingPath == "/missing"

\* -------------------------------------------------------------- the model
\* One row of api_requests.  ip_address and user_agent are copied from the
\* request and read by no query; they are left out.
APIRequest(id, endpoint, method, status_code, latency_ms, timestamp) ==
    [id |-> id, endpoint |-> endpoint, method |-> method,
     status_code |-> status_code, latency_ms |-> latency_ms,
     timestamp |-> timestamp]

\* to_dict: the row as it is serialised.
to_dict(r) ==
    [id |-> r.id, endpoint |-> r.endpoint, method |-> r.method,
     status_code |-> r.status_code, latency_ms |-> r.latency_ms,
     timestamp |-> r.timestamp]

\* ---------------------------------------------------------------- queries
\* time_threshold = datetime.utcnow() - timedelta(hours=hours)
TimeThreshold(t, hours) == t - hours

\* Variant of InWindow: the boundary row, at time_threshold exactly, is left out.
InWindowStrict(S, th) == SelectSeq(S, LAMBDA r : r.timestamp > th)

\* .filter(APIRequest.timestamp >= time_threshold)
InWindow(S, th) == SelectSeq(S, LAMBDA r : r.timestamp >= th)

\* .filter(..., APIRequest.status_code >= 400)
IsError(r) == r.status_code >= 400
Errors(W) == SelectSeq(W, IsError)

\* .group_by(APIRequest.endpoint, APIRequest.method)
Pairs(W) == {<<r.endpoint, r.method>> : r \in Range(W)}
OfPair(W, p) == SelectSeq(W, LAMBDA r : <<r.endpoint, r.method>> = p)

\* The orders in which a query may return `rows`: every arrangement in which
\* no row precedes one that `first` puts strictly before it (ties in any
\* order).  `first` holds the pairs <<a, b>> of rows with a strictly before b.
Arrangements(rows) ==
    {f \in [1..Cardinality(rows) -> rows] :
        \A i, j \in 1..Cardinality(rows) : i # j => f[i] # f[j]}
OrderBy(rows, first) ==
    {f \in Arrangements(rows) :
        \A i, j \in DOMAIN f : i < j => <<f[j], f[i]>> \notin first}

\* Variant of Limit: one row too many.
LimitOffByOne(s, limit) == SubSeq(s, 1, Min(limit + 1, Len(s)))

\* .limit(limit)
Limit(s, limit) == SubSeq(s, 1, Min(limit, Len(s)))

\* SQL NULL: what an aggregate or an outer join yields where there is no row.
\* No count is negative.
NULL == -1
\* func.coalesce(x, d)
Coalesce(x, d) == IF x = NULL THEN d ELSE x
\* Python's `x or d` on a number or None.
OrElse(x, d) == IF x = NULL \/ x = 0 THEN d ELSE x

\* get_most_used_endpoints: the result lists the query may return.
MostUsedRows(W) ==
    {[endpoint |-> p[1], method |-> p[2], request_count |-> Len(OfPair(W, p))] :
        p \in Pairs(W)}
\* Variant of MostUsedOrder: ascending.
MostUsedOrderAscending(rows) ==
    {x \in rows \X rows : x[1].request_count < x[2].request_count}
\* .order_by(desc('count'))
MostUsedOrder(rows) ==
    {x \in rows \X rows : x[1].request_count > x[2].request_count}
MostUsedResults(S, th, limit) ==
    {Limit(f, limit) :
        f \in OrderBy(MostUsedRows(InWindow(S, th)),
                      MostUsedOrder(MostUsedRows(InWindow(S, th))))}

\* get_error_rates: the two grouped subqueries, their outer join, the rows.
TotalRequests(W) ==
    {[endpoint |-> p[1], method |-> p[2], total |-> Len(OfPair(W, p))] :
        p \in Pairs(W)}
ErrorRequests(W) ==
    {[endpoint |-> p[1], method |-> p[2], errors |-> Len(OfPair(Errors(W), p))] :
        p \in Pairs(Errors(W))}
Joined(t, e) == t.endpoint = e.endpoint /\ t.method = e.method
\* Variant of OuterJoin: an inner join, which drops the pairs without errors.
InnerJoin(T, E) ==
    {[total |-> t, errors |-> e.errors] : <<t, e>> \in {x \in T \X E : Joined(x[1], x[2])}}
OuterJoin(T, E) ==
    {[total |-> t, errors |-> e.errors] : <<t, e>> \in {x \in T \X E : Joined(x[1], x[2])}}
    \cup {[total |-> t, errors |-> NULL] : t \in {u \in T : \A e \in E : ~Joined(u, e)}}
ErrorRateRow(j) ==
    [endpoint |-> j.total.endpoint, method |-> j.total.method,
     total_requests |-> j.total.total,
     error_count |-> Coalesce(j.errors, 0),
     error_rate_percent |-> RoundDiv(Coalesce(j.errors, 0) * 100 * 100, j.total.total)]
ErrorRateRows(W) ==
    {ErrorRateRow(j) : j \in OuterJoin(TotalRequests(W), ErrorRequests(W))}
\* .order_by(desc('error_rate_percent'))
ErrorRateOrder(rows) ==
    {x \in rows \X rows : x[1].error_rate_percent > x[2].error_rate_percent}
ErrorRateResults(S, th) ==
    OrderBy(ErrorRateRows(InWindow(S, th)),
            ErrorRateOrder(ErrorRateRows(InWindow(S, th))))

\* get_average_response_times: groups ordered by their exact average, the
\* rows rounded afterwards.
Latency(W) == [i \in DOMAIN W |-> W[i].latency_ms]
MinOf(s) == CHOOSE x \in Range(s) : \A y \in Range(s) : x <= y
MaxOf(s) == CHOOSE x \in Range(s) : \A y \in Range(s) : x >= y
LatencyGroups(W) ==
    {[endpoint |-> p[1], method |-> p[2], latency |-> Latency(OfPair(W, p))] :
        p \in Pairs(W)}
\* .order_by(desc('avg_latency')): sum/count compared as fractions.
LatencyOrder(groups) ==
    {x \in groups \X groups :
        SumSeq(x[1].latency) * Len(x[2].latency) > SumSeq(x[2].latency) * Len(x[1].latency)}
ResponseTimeRow(g) ==
    [endpoint |-> g.endpoint, method |-> g.method,
     avg_latency_ms |-> RoundDiv(SumSeq(g.latency) * 100, Len(g.latency)),
     min_latency_ms |-> MinOf(g.latency) * 100,
     max_latency_ms |-> MaxOf(g.latency) * 100,
     request_count |-> Len(g.latency)]
ResponseTimeResults(S, th) ==
    {[i \in DOMAIN f |-> ResponseTimeRow(f[i])] :
        f \in OrderBy(LatencyGroups(InWindow(S, th)),
                      LatencyOrder(LatencyGroups(InWindow(S, th))))}

\* get_summary: its four scalar queries, and the summary built from them.
SummaryTotal(S, th) == Len(InWindow(S, th))
SummaryErrors(S, th) == Len(Errors(InWindow(S, th)))
\* func.avg is NULL over no row; the average is kept as sum and count.
SummaryAvg(S, th) ==
    [null |-> InWindow(S, th) = <<>>,
     sum |-> SumSeq(Latency(InWindow(S, th))),
     count |-> Len(InWindow(S, th))]
\* Variant of SummaryUnique: distinct (endpoint, method) pairs.
SummaryUniquePairs(S, th) == Cardinality(Pairs(InWindow(S, th)))
SummaryUnique(S, th) == Cardinality({r.endpoint : r \in Range(InWindow(S, th))})
SummaryOf(total_requests, error_count, avg_latency, unique_endpoints) ==
    [total_requests |-> OrElse(total_requests, 0),
     error_count |-> OrElse(error_count, 0),
     error_rate_percent |->
        RoundDiv(OrElse(error_count, 0) * 100 * 100, OrElse(total_requests, 1)),
     avg_latency_ms |->
        IF avg_latency.null \/ avg_latency.sum = 0 THEN 0
        ELSE RoundDiv(avg_latency.sum * 100, avg_latency.count),
     unique_endpoints |-> OrElse(unique_endpoints, 0)]

\* get_recent_requests: the row lists the query may return.
\* .order_by(desc(APIRequest.timestamp))
RecentOrder(rows) == {x \in rows \X rows : x[1].timestamp > x[2].timestamp}
RecentResults(S, th, limit) ==
    {Limit(f, limit) :
        f \in OrderBy(Range(InWindow(S, th)), RecentOrder(Range(InWindow(S, th))))}

\* -------------------------------------------------------------- responses
Response(status, body) == [status |-> status, body |-> body]
\* What Flask answers when no route matches, when the route does not allow
\* the method, and when the handler's query raises.
NotFound == Response(404, [error |-> "Not Found"])
MethodNotAllowed == Response(405, [error |-> "Method Not Allowed"])
ServerError == Response(500, [error |-> "Internal Server Error"])

\* ------------------------------------------------------------- middleware
\* The outcomes of the CloudWatch step of log_response: skipped when the
\* handle is None, else put_log_events returns or raises.
PutOutcomes == IF cloudwatch_logs = "None" THEN {"skipped"} ELSE {"ok", "raises"}

\* Variant of SinkStep: the failure of put_log_events is not caught.
SinkStepRaises(put) == [log |-> {}, raised |-> put = "raises"]

\* if cloudwatch_logs: try put_log_events except Exception: logger.warning.
\* `raised` tells whether an exception leaves the step.
SinkStep(put) == [log |-> IF put = "raises" THEN {"warning"} ELSE {}, raised |-> FALSE]

\* Variant of AssignId: every row gets the same id.
AssignIdStuck(n) == 1

\* The id the store gives a new row: the next value of its sequence.
AssignId(n) == n

\* Variant of StoreStep: no rollback, the row added stays after a failed commit.
StoreStepNoRollback(S, row, commit) ==
    [rows |-> Append(S, row),
     log |-> IF commit THEN {} ELSE {"error"},
     raised |-> FALSE]
\* Variant of StoreStep: the row is added twice.
StoreStepTwice(S, row, commit) ==
    [rows |-> IF commit THEN Append(Append(S, row), row) ELSE S,
     log |-> IF commit THEN {} ELSE {"error"},
     raised |-> FALSE]

\* try: add, commit  except Exception: logger.error, rollback.
\* `commit` tells whether add and commit go through.
StoreStep(S, row, commit) ==
    [rows |-> IF commit THEN Append(S, row) ELSE S,
     log |-> IF commit THEN {} ELSE {"error"},
     raised |-> FALSE]

\* return response
Returned(response, sink, stored) ==
    IF sink.raised \/ stored.raised THEN ServerError ELSE response

NoRequest ==
    [path |-> "", method |-> "", limit |-> 0, hours |-> 0, at |-> 0,
     put |-> "skipped", commit |-> FALSE, log |-> {}, raised |-> FALSE]

\* log_request and log_response around one handled request: the row is built
\* from the request and the handler's response, mirrored to the sink, added
\* and committed, and the handler's response is returned.
LogResponse(path, method, response, limit, hours) ==
    \E latency_ms \in Latencies, put \in PutOutcomes, commit \in BOOLEAN :
        LET row == APIRequest(AssignId(nextId), path, method, response.status,
                              latency_ms, now)
            sink == SinkStep(put)
            stored == IF sink.raised
                      THEN [rows |-> store, log |-> {}, raised |-> FALSE]
                      ELSE StoreStep(store, row, commit)
        IN  /\ served' = served + 1
            /\ failed' = IF commit THEN failed ELSE failed + 1
            /\ store' = stored.rows
            \* A failed insert may or may not have drawn from the sequence.
            /\ nextId' \in IF commit THEN {nextId + 1} ELSE {nextId, nextId + 1}
            /\ handled' = response
            /\ resp' = Returned(response, sink, stored)
            /\ req' = [path |-> path, method |-> method, limit |-> limit,
                       hours |-> hours, at |-> now, put |-> put,
                       commit |-> commit, log |-> sink.log \cup stored.log,
                       raised |-> sink.raised \/ stored.raised]
            /\ UNCHANGED <<cloudwatch_logs, now, budget>>

\* --------------------------------------------------------------- handlers
\* The behaviour has requests left to serve (a get_summary in flight is one).
InFlight == IF sm.pc = "idle" THEN 0 ELSE 1
CanServe == served + InFlight < budget

\* A request for a path that has no route.
NoRoute ==
    \E method \in {"GET"} :
        /\ CanServe
        /\ LogResponse(MissingPath, method, NotFound, 0, 0)
        /\ UNCHANGED sm

\* A request for a route with a method it does not allow.
WrongMethod ==
    \E path \in {HealthPath} :
        /\ CanServe
        /\ LogResponse(path, "POST", MethodNotAllowed, 0, 0)
        /\ UNCHANGED sm

health_check ==
    /\ CanServe
    /\ LogResponse(HealthPath, "GET",
                   Response(200, [status |-> "healthy", timestamp |-> now]), 0, 0)
    /\ UNCHANGED sm

get_most_used_endpoints ==
    \E limit \in Limits, hours \in Hours :
        /\ CanServe
        /\ \E results \in MostUsedResults(store, TimeThreshold(now, hours), limit) :
            /\ LogResponse(MostUsedPath, "GET",
                           Response(200, [timeframe_hours |-> hours, results |-> results]),
                           limit, hours)
            /\ UNCHANGED sm

get_error_rates ==
    \E hours \in Hours :
        /\ CanServe
        /\ \E results \in ErrorRateResults(store, TimeThreshold(now, hours)) :
            /\ LogResponse(ErrorRatesPath, "GET",
                           Response(200, [timeframe_hours |-> hours, results |-> results]),
                           0, hours)
            /\ UNCHANGED sm

get_average_response_times ==
    \E hours \in Hours :
        /\ CanServe
        /\ \E results \in ResponseTimeResults(store, TimeThreshold(now, hours)) :
            /\ LogResponse(ResponseTimesPath, "GET",
                           Response(200, [timeframe_hours |-> hours, results |-> results]),
                           0, hours)
            /\ UNCHANGED sm

\* get_summary served with no commit between its four queries.
get_summary ==
    \E hours \in Hours :
        LET th == TimeThreshold(now, hours)
        IN  /\ CanServe
            /\ LogResponse(SummaryPath, "GET",
                           Response(200,
                               [timeframe_hours |-> hours,
                                summary |-> SummaryOf(SummaryTotal(store, th),
                                                      SummaryErrors(store, th),
                                                      SummaryAvg(store, th),
                                                      SummaryUnique(store, th))]),
                           0, hours)
            /\ UNCHANGED sm

get_recent_requests ==
    \E limit \in Limits, hours \in Hours :
        /\ CanServe
        /\ \E requests \in RecentResults(store, TimeThreshold(now, hours), limit) :
            /\ LogResponse(RequestsPath, "GET",
                           Response(200,
                               [count |-> Len(requests),
                                requests |-> [i \in DOMAIN requests |-> to_dict(requests[i])]]),
                           limit, hours)
            /\ UNCHANGED sm

\* A handler whose query raises: Flask answers 500, and log_response runs.
QueryFailure(path) ==
    /\ CanServe
    /\ LogResponse(path, "GET", ServerError, 0, 0)
    /\ UNCHANGED sm

\* No get_summary in flight.
Idle ==
    [pc |-> "idle", hours |-> 0, threshold |-> 0, total_requests |-> 0,
     error_count |-> 0, avg_latency |-> [null |-> TRUE, sum |-> 0, count |-> 0],
     unique_endpoints |-> 0]

\* get_summary query by query: other requests may commit between two of its
\* queries, and each query reads the rows committed when it runs.
summary_begin ==
    \E hours \in Hours :
        /\ sm.pc = "idle"
        /\ CanServe
        /\ sm' = [sm EXCEPT !.pc = "total", !.hours = hours,
                            !.threshold = TimeThreshold(now, hours)]
        /\ UNCHANGED <<cloudwatch_logs, store, nextId, now, budget, served, failed,
                       req, handled, resp>>

summary_total ==
    /\ sm.pc = "total"
    /\ sm' = [sm EXCEPT !.pc = "errors",
                        !.total_requests = SummaryTotal(store, sm.threshold)]
    /\ UNCHANGED <<cloudwatch_logs, store, nextId, now, budget, served, failed,
                   req, handled, resp>>

summary_errors ==
    /\ sm.pc = "errors"
    /\ sm' = [sm EXCEPT !.pc = "avg",
                        !.error_count = SummaryErrors(store, sm.threshold)]
    /\ UNCHANGED <<cloudwatch_logs, store, nextId, now, budget, served, failed,
                   req, handled, resp>>

summary_avg ==
    /\ sm.pc = "avg"
    /\ sm' = [sm EXCEPT !.pc = "unique",
                        !.avg_latency = SummaryAvg(store, sm.threshold)]
    /\ UNCHANGED <<cloudwatch_logs, store, nextId, now, budget, served, failed,
                   req, handled, resp>>

summary_unique ==
    /\ sm.pc = "unique"
    /\ sm' = [sm EXCEPT !.pc = "respond",
                        !.unique_endpoints = SummaryUnique(store, sm.threshold)]
    /\ UNCHANGED <<cloudwatch_logs, store, nextId, now, budget, served, failed,
                   req, handled, resp>>

summary_respond ==
    /\ sm.pc = "respond"
    /\ LogResponse(SummaryPath, "GET",
                   Response(200,
                       [timeframe_hours |-> sm.hours,
                        summary |-> SummaryOf(sm.total_requests, sm.error_count,
                                              sm.avg_latency, sm.unique_endpoints)]),
                   0, sm.hours)
    /\ sm' = Idle

\* The clock moves on.
Tick ==
    /\ now < MaxNow
    /\ now' = now + 1
    /\ UNCHANGED <<cloudwatch_logs, store, nextId, budget, served, failed, req, handled, resp, sm>>

\* ------------------------------------------------------- specification
\* The state when the process starts serving.  db.create_all() keeps the rows
\* that an earlier run of the service committed.
Start(sinks, requests, earlier) ==
    /\ cloudwatch_logs \in sinks
    /\ budget = requests
    /\ store \in earlier
    /\ nextId = Len(store) + 1
    /\ now = 0
    /\ served = 0
    /\ failed = 0
    /\ req = NoRequest
    /\ handled = Response(0, [error |-> ""])
    /\ resp = Response(0, [error |-> ""])
    /\ sm = Idle

\* A table that is new.
NoRows == {<<>>}
\* A table that is new, or holds the row of one GET /health served at hour 0.
OneRow == {<<>>, <<APIRequest(1, HealthPath, "GET", 200, 3, 0)>>}

\* Requests of every kind, all within one hour of the clock.
Init == Start({"None", "client"}, MaxRequests, NoRows)
Next ==
    \/ NoRoute
    \/ WrongMethod
    \/ health_check
    \/ get_most_used_endpoints
    \/ get_error_rates
    \/ get_average_response_times
    \/ get_summary
    \/ get_recent_requests
    \/ \E path \in ReadPaths : QueryFailure(path)
Spec == Init /\ [][Next]_vars

\* The five read operations while the clock moves.
InitWindow == Start({"None"}, MaxRequests, OneRow)
NextWindow ==
    \/ get_most_used_endpoints
    \/ get_error_rates
    \/ get_average_response_times
    \/ get_summary
    \/ get_recent_requests
    \/ Tick
SpecWindow == InitWindow /\ [][NextWindow]_vars

\* Longer runs of a few kinds of request: /health traffic and one read
\* operation, while the clock moves.
InitBurst == Start({"None"}, MaxBurst, NoRows)
NextMostUsed ==
    \/ health_check
    \/ WrongMethod
    \/ get_most_used_endpoints
    \/ Tick
SpecMostUsed == InitBurst /\ [][NextMostUsed]_vars

NextErrorRates ==
    \/ health_check
    \/ get_error_rates
    \/ QueryFailure(ErrorRatesPath)
    \/ Tick
SpecErrorRates == InitBurst /\ [][NextErrorRates]_vars

NextSummary ==
    \/ health_check
    \/ WrongMethod
    \/ get_summary
    \/ Tick
SpecSummary == InitBurst /\ [][NextSummary]_vars

NextRecent ==
    \/ health_check
    \/ WrongMethod
    \/ get_recent_requests
    \/ Tick
SpecRecent == InitBurst /\ [][NextRecent]_vars

\* get_summary among concurrent requests, under read-committed isolation.
NextRC ==
    \/ health_check
    \/ WrongMethod
    \/ summary_begin
    \/ summary_total
    \/ summary_errors
    \/ summary_avg
    \/ summary_unique
    \/ summary_respond
SpecRC == InitBurst /\ [][NextRC]_vars

\* ------------------------------------------------------------------ claims
\* A step that serves a request.
Serves == served' = served + 1
\* The rows committed before the last request served was logged.
Before == IF req.commit THEN SubSeq(store, 1, Len(store) - 1) ELSE store
\* The last request served was answered by the handler of `path`.
Answered(path) == served > 0 /\ req.path = path /\ req.method = "GET" /\ handled.status = 200
\* The rows of S that a query at hour `at` over `hours` hours is to cover.
Covered(S, at, hours) == SelectSeq(S, LAMBDA r : r.timestamp >= at - hours)
\* The row that describes the last request served.
Describes(r) ==
    /\ r.endpoint = req.path
    /\ r.method = req.method
    /\ r.status_code = handled.status
    /\ r.timestamp = req.at
\* x is y/t rounded to the nearest integer.
Nearest(x, y, t) == 2 * (x * t - y) <= t /\ 2 * (y - x * t) <= t
\* The numbers of a sequence never go up.
NonIncreasing(s) == \A i, j \in DOMAIN s : i < j => s[i] >= s[j]
CountOf(W, endpoint, method) ==
    Cardinality({i \in DOMAIN W : W[i].endpoint = endpoint /\ W[i].method = method})
ErrorsOf(W, endpoint, method) ==
    Cardinality({i \in DOMAIN W : /\ W[i].endpoint = endpoint
                                  /\ W[i].method = method
                                  /\ W[i].status_code >= 400})

\* C1: after N requests whose commits all succeeded the store holds exactly N
\* rows, the last of them describing the last request, and no two rows have
\* the same id.
C1_OneRowPerRequest ==
    failed = 0 =>
        /\ Len(store) = served
        /\ served > 0 => Describes(store[Len(store)])
        /\ \A i, j \in DOMAIN store : i # j => store[i].id # store[j].id
C1_Witness ==
    /\ failed = 0
    /\ served = MaxRequests
    /\ Len(store) = MaxRequests
    /\ store[1].endpoint = HealthPath
    /\ store[2].endpoint \in ReadPaths

\* C2: when add/commit fails in log_response, an error is logged, the rows
\* committed are those committed before the request, no exception leaves
\* log_response and the handler's response is returned as it was.
C2_FailureIsolated ==
    [][(Serves /\ ~req'.commit) =>
            /\ "error" \in req'.log
            /\ store' = store
            /\ ~req'.raised
            /\ resp' = handled']_vars
C2_Witness ==
    /\ served = MaxRequests
    /\ ~req.commit
    /\ "error" \in req.log
    /\ Len(store) = 1
    /\ resp = handled
    /\ resp.status = 200

\* C3: whether the sink is disabled, accepts the event or raises, the store
\* append follows: when add/commit go through, exactly one row, describing
\* the request, is appended; a sink failure is logged as a warning; and the
\* handler's response is returned as it was.
C3_SinkIsolated ==
    [][Serves =>
            /\ req'.put \in {"skipped", "ok", "raises"}
            /\ req'.put = "raises" => "warning" \in req'.log
            /\ req'.commit =>
                /\ Len(store') = Len(store) + 1
                /\ SubSeq(store', 1, Len(store)) = store
                /\ store'[Len(store')].endpoint = req'.path
                /\ store'[Len(store')].method = req'.method
                /\ store'[Len(store')].status_code = handled'.status
            /\ ~req'.raised
            /\ resp' = handled']_vars
C3_Witness ==
    /\ cloudwatch_logs = "client"
    /\ served > 0
    /\ req.put = "raises"
    /\ "warning" \in req.log
    /\ req.commit
    /\ Describes(store[Len(store)])
    /\ resp = handled

\* C4 as claimed: a request to one of the five read endpoints leaves the
\* committed rows as they were.
C4_ReadOnlyEndpoint ==
    [][(Serves /\ req'.path \in ReadPaths) => store' = store]_vars
\* C4 as amended: a request to one of the five read endpoints changes the
\* store in one way only: log_response appends the one row that describes the
\* request when its commit goes through (none when it fails), and every row
\* committed before stays as it was.
C4_ReadAppendsOwnRow ==
    [][(Serves /\ req'.path \in ReadPaths) =>
            IF req'.commit
            THEN /\ Len(store') = Len(store) + 1
                 /\ SubSeq(store', 1, Len(store)) = store
                 /\ store'[Len(store')].endpoint = req'.path
                 /\ store'[Len(store')].timestamp = now
            ELSE store' = store]_vars
C4_Witness ==
    /\ Answered(SummaryPath)
    /\ req.commit
    /\ Len(store) = 2
    /\ store[1].endpoint = SummaryPath
    /\ store[2].endpoint = SummaryPath
    /\ handled.body.summary.total_requests = 1

\* The rows the last request served was to cover: those committed before it
\* whose timestamp is at or after its `now - hours`.
W == Covered(Before, req.at, req.hours)
Serialised(rows) == [i \in DOMAIN rows |-> to_dict(rows[i])]

\* C5: each of the five read operations answers with what its query yields
\* over exactly the rows with timestamp >= now - hours, `now` being the hour of
\* the call: the answer is one the query gives when the store holds those
\* rows and no others.
C5_WindowExact ==
    /\ Answered(MostUsedPath) =>
        handled.body.results \in MostUsedResults(W, -1, req.limit)
    /\ Answered(ErrorRatesPath) =>
        handled.body.results \in ErrorRateResults(W, -1)
    /\ Answered(ResponseTimesPath) =>
        handled.body.results \in ResponseTimeResults(W, -1)
    /\ Answered(SummaryPath) =>
        handled.body.summary =
            SummaryOf(SummaryTotal(W, -1), SummaryErrors(W, -1),
                      SummaryAvg(W, -1), SummaryUnique(W, -1))
    /\ Answered(RequestsPath) =>
        handled.body.requests \in
            {Serialised(rows) : rows \in RecentResults(W, -1, req.limit)}
\* Rows one hour and two hours old, and a summary over one hour that counts
\* the first alone.
C5_Witness ==
    /\ Answered(SummaryPath)
    /\ req.hours = 1
    /\ Len(Before) = 2
    /\ Before[1].timestamp = req.at - 2
    /\ Before[2].timestamp = req.at - 1
    /\ handled.body.summary.total_requests = 1

\* C6: error-rates has exactly one row for every (endpoint, method) pair with
\* a row in the window, pairs without errors included; a row's total_requests
\* and error_count are the pair's counts, its error_rate_percent is
\* error_count*100/total_requests to two decimals (0 for no errors), and the
\* rows are in non-increasing error_rate_percent order.
C6_ErrorRates ==
    Answered(ErrorRatesPath) =>
        LET res == handled.body.results
        IN  /\ {<<res[i].endpoint, res[i].method>> : i \in DOMAIN res} =
                    {<<r.endpoint, r.method>> : r \in Range(W)}
            /\ \A i, j \in DOMAIN res :
                    (res[i].endpoint = res[j].endpoint /\ res[i].method = res[j].method)
                        => i = j
            /\ \A i \in DOMAIN res :
                    /\ res[i].total_requests = CountOf(W, res[i].endpoint, res[i].method)
                    /\ res[i].error_count = ErrorsOf(W, res[i].endpoint, res[i].method)
                    /\ Nearest(res[i].error_rate_percent,
                               res[i].error_count * 100 * 100, res[i].total_requests)
                    /\ res[i].error_count = 0 => res[i].error_rate_percent = 0
            /\ NonIncreasing([i \in DOMAIN res |-> res[i].error_rate_percent])
\* A pair with one error in two rows, listed before a pair with no error.
C6_Witness ==
    /\ Answered(ErrorRatesPath)
    /\ Len(handled.body.results) = 2
    /\ handled.body.results[1].error_rate_percent = 5000
    /\ handled.body.results[1].total_requests = 2
    /\ handled.body.results[2].endpoint = HealthPath
    /\ handled.body.results[2].error_count = 0
    /\ handled.body.results[2].error_rate_percent = 0

\* C7: summary over a window without rows is all zeros; over a window with
\* rows total_requests is their number, error_count the number with
\* status_code >= 400, error_rate_percent is error_count*100/max(total, 1) to
\* two decimals, unique_endpoints the number of distinct endpoint values.
C7_Summary ==
    Answered(SummaryPath) =>
        LET sum == handled.body.summary
            errors == Cardinality({i \in DOMAIN W : W[i].status_code >= 400})
        IN  /\ sum.total_requests = Len(W)
            /\ sum.error_count = errors
            /\ Nearest(sum.error_rate_percent, errors * 100 * 100,
                       IF Len(W) > 1 THEN Len(W) ELSE 1)
            /\ sum.unique_endpoints = Cardinality({r.endpoint : r \in Range(W)})
            /\ W = <<>> =>
                /\ sum.total_requests = 0
                /\ sum.error_count = 0
                /\ sum.error_rate_percent = 0
                /\ sum.avg_latency_ms = 0
                /\ sum.unique_endpoints = 0
\* A summary over one hour when every committed row is older: all zeros.
C7_Witness ==
    /\ Answered(SummaryPath)
    /\ Len(Before) = 3
    /\ W = <<>>
    /\ handled.body.summary.total_requests = 0
    /\ handled.body.summary.error_rate_percent = 0

\* C8: most-used returns min(limit, G) rows, G the number of (endpoint,
\* method) pairs with a row in the window; each row carries its pair's count,
\* the rows are in non-increasing request_count order, and no pair left out
\* has a greater count than a pair returned.
C8_MostUsed ==
    Answered(MostUsedPath) =>
        LET res == handled.body.results
            pairs == {<<r.endpoint, r.method>> : r \in Range(W)}
            listed == {<<res[i].endpoint, res[i].method>> : i \in DOMAIN res}
        IN  /\ Len(res) = Min(req.limit, Cardinality(pairs))
            /\ Cardinality(listed) = Len(res)
            /\ listed \subseteq pairs
            /\ \A i \in DOMAIN res :
                    res[i].request_count = CountOf(W, res[i].endpoint, res[i].method)
            /\ NonIncreasing([i \in DOMAIN res |-> res[i].request_count])
            /\ \A p \in pairs \ listed : \A i \in DOMAIN res :
                    CountOf(W, p[1], p[2]) <= res[i].request_count
            /\ W = <<>> => res = <<>>
\* Two pairs with two rows and one row, limit 1: the pair with two is returned.
C8_Witness ==
    /\ Answered(MostUsedPath)
    /\ req.limit = 1
    /\ Cardinality({<<r.endpoint, r.method>> : r \in Range(W)}) = 2
    /\ Len(W) = 3
    /\ Len(handled.body.results) = 1
    /\ handled.body.results[1].request_count = 2

\* C9: recent-requests over a window of M rows returns min(limit, M) of them
\* in non-increasing timestamp order, none older than a row left out, and
\* `count` is the number of rows returned.
C9_Recent ==
    Answered(RequestsPath) =>
        LET res == handled.body.requests
            shown == {res[i].id : i \in DOMAIN res}
        IN  /\ Len(res) = Min(req.limit, Len(W))
            /\ handled.body.count = Len(res)
            /\ Cardinality(shown) = Len(res)
            /\ \A i \in DOMAIN res : \E k \in DOMAIN W : res[i] = to_dict(W[k])
            /\ NonIncreasing([i \in DOMAIN res |-> res[i].timestamp])
            /\ \A k \in DOMAIN W : W[k].id \notin shown =>
                    \A i \in DOMAIN res : res[i].timestamp >= W[k].timestamp
\* Three rows of three different hours, limit 1: the newest alone is returned.
C9_Witness ==
    /\ Answered(RequestsPath)
    /\ req.limit = 1
    /\ Len(W) = 3
    /\ W[1].timestamp < W[2].timestamp
    /\ W[2].timestamp < W[3].timestamp
    /\ handled.body.count = 1
    /\ handled.body.requests[1].id = W[3].id

\* C10: a summary returned while other requests commit between its queries
\* is consistent: error_count <= total_requests, error_rate_percent within
\* 0..100, and no error and no endpoint when total_requests is 0.
C10_SummaryConsistent ==
    Answered(SummaryPath) =>
        LET sum == handled.body.summary
        IN  /\ sum.error_count <= sum.total_requests
            /\ 0 <= sum.error_rate_percent
            /\ sum.error_rate_percent <= 100 * 100
            /\ sum.total_requests = 0 =>
                (sum.error_count = 0 /\ sum.unique_endpoints = 0)

====
